---- MODULE Spec2Model ----
(***************************************************************************)
(* Closed-loop pacing simulation of adaptive_threshold.py:                 *)
(*   AdaptiveLIFDetector (adaptive-threshold LIF spike detector with       *)
(*   homeostasis), PacemakerController (VVI demand pacing) and             *)
(*   run_closed_loop (time-step loop, artifact injection, detector re-run).*)
(*                                                                         *)
(* Number representation.  The program computes in floating point; the     *)
(* model computes in fixed point:                                          *)
(*   - times are integers in milliseconds (t_s = 1000 * i / fs),           *)
(*   - amplitudes (signal, v, theta, theta_base, standardised signal,      *)
(*     gain, dead zone, rates) are integers in thousandths,                *)
(*   - the pulse width is in microseconds (its default is 0.5 ms).         *)
(* Every quotient of the program is a \div at the place where the program  *)
(* divides.                                                                *)
(***************************************************************************)
EXTENDS Integers, Sequences, FiniteSets

VARIABLES
    \* ---- run_closed_loop: arguments and locals
    fs,              \* sample rate (Hz)
    N,               \* len(t)
    detector_params, \* keyword arguments of AdaptiveLIFDetector
    pm_params,       \* keyword arguments of PacemakerController
    ecg_filt,        \* band-passed intrinsic signal, [0..N-1 -> Int]
    obs_ecg,         \* observed signal (artifacts added in place)
    spikes,          \* spike train of the last completed detector run
    i,               \* loop index of run_closed_loop
    t_s,             \* t[i] of the last executed iteration
    pace, captured, accepted,   \* result of the last pacemaker.step
    paced_times, captured_times, sensed_times,
    pc,              \* control location
    caller,          \* call site of the detector run in progress
    \* ---- AdaptiveLIFDetector: attributes and locals of run
    v, theta, theta_base, spike_times,
    I_t, run_spikes, last_spike_time, t,
    \* ---- PacemakerController: attributes
    last_event_time, blank_until, refract_until,
    pacing_history, sensed_history

simVars  == <<fs, N, detector_params, pm_params, ecg_filt, obs_ecg, spikes, i, t_s,
              pace, captured, accepted, paced_times, captured_times, sensed_times,
              pc, caller>>
detVars  == <<v, theta, theta_base, spike_times, I_t, run_spikes, last_spike_time, t>>
pmVars   == <<last_event_time, blank_until, refract_until, pacing_history, sensed_history>>
vars     == <<simVars, detVars, pmVars>>

(***************************************************************************)
(* Bounds of the model and the inputs it draws from                        *)
(***************************************************************************)
MaxN == 5                    \* longest signal, in samples
NegInf == -1000000000        \* the program's -1e9 "no event yet" time

FsChoices == {5}                         \* 200 ms sample period
Levels    == {0, 1000}                   \* sample values of the filtered signal
DetectorConfigs ==
    [ tau_m : {400}, tau_theta : {700},        \* ms
      theta_base : {0, 150}, theta_inc : {350},
      v_reset : {0}, v_rest : {0},
      gain : {3000}, dead_zone : {650},
      refractory_ms : {150, 400},
      homeo_rate : {500},
      target_spikes_per_sec : {1000},
      homeo_window_s : {400} ]                 \* ms
ControllerConfigs ==
    [ lower_rate_bpm : {100, 120, 150},
      blanking_ms : {40, 400},
      refractory_ms : {200, 600},
      pulse_width_us : {500, 400000} ]
\* configurations with a non-positive rate, which the constructors also take
NonPositiveRateDetectorConfigs ==
    [ tau_m : {400}, tau_theta : {700},
      theta_base : {150}, theta_inc : {350},
      v_reset : {0}, v_rest : {0},
      gain : {3000}, dead_zone : {650},
      refractory_ms : {150},
      homeo_rate : {500},
      target_spikes_per_sec : {0, -1000},
      homeo_window_s : {400} ]
NonPositiveRateControllerConfigs ==
    [ lower_rate_bpm : {0, -100},
      blanking_ms : {40},
      refractory_ms : {200},
      pulse_width_us : {500} ]

(***************************************************************************)
(* Array helpers                                                           *)
(***************************************************************************)
Idx(n) == 0 .. n - 1
Zeros(n) == [k \in Idx(n) |-> 0]
Max2(a, b) == IF a >= b THEN a ELSE b
Min2(a, b) == IF a <= b THEN a ELSE b
Clip(x, lo, hi) == IF x < lo THEN lo ELSE IF x > hi THEN hi ELSE x
Abs(x) == IF x < 0 THEN -x ELSE x

ArrMin(a, n) == CHOOSE m \in {a[k] : k \in Idx(n)} : \A k \in Idx(n) : m <= a[k]
ArrMax(a, n) == CHOOSE m \in {a[k] : k \in Idx(n)} : \A k \in Idx(n) : m >= a[k]

\* number of elements of a strictly below x, and at most x
CountLess(a, n, x) == Cardinality({k \in Idx(n) : a[k] < x})
CountLeq(a, n, x)  == Cardinality({k \in Idx(n) : a[k] <= x})
\* the element of rank r (0-based) of a in sorted order
Ranked(a, n, r) ==
    CHOOSE x \in {a[k] : k \in Idx(n)} : CountLess(a, n, x) <= r /\ r < CountLeq(a, n, x)
\* np.median: the middle element, or the mean of the two middle elements
Median(a, n) ==
    IF n % 2 = 1 THEN Ranked(a, n, n \div 2)
    ELSE (Ranked(a, n, n \div 2 - 1) + Ranked(a, n, n \div 2)) \div 2

(***************************************************************************)
(* Configuration as converted by the constructors                          *)
(***************************************************************************)
dt == 1000 \div fs                                   \* self.dt = 1/fs  (ms)
Time(k) == (k * 1000) \div fs                        \* k/fs, and t[k] of np.arange(0, duration_s, 1/fs)  (ms)
duration_s == N * dt                                 \* the horizon whose time axis has N samples (ms)

tau_m == detector_params.tau_m
tau_theta == detector_params.tau_theta
theta_inc == detector_params.theta_inc
v_reset == detector_params.v_reset
v_rest == detector_params.v_rest
gain == detector_params.gain
dead_zone == detector_params.dead_zone
det_refractory_s == detector_params.refractory_ms    \* refractory_ms / 1000.0 s, kept in ms
homeo_rate == detector_params.homeo_rate
target_spikes_per_sec == detector_params.target_spikes_per_sec
homeo_window_s == detector_params.homeo_window_s

escape_interval_s == 60000 \div pm_params.lower_rate_bpm   \* 60.0 / lower_rate_bpm s, in ms
blanking_s == pm_params.blanking_ms
pm_refractory_s == pm_params.refractory_ms
pulse_width_s == pm_params.pulse_width_us                  \* in microseconds

ThetaBaseMin == 1            \* np.clip lower bound 0.001
ThetaBaseMax == 1000         \* np.clip upper bound 1.0
StdLo == -5000               \* np.clip(ecg_std, -5.0, 10.0)
StdHi == 10000
ArtifactAmp == 900           \* 0.9 * (1 - j/width)

(***************************************************************************)
(* AdaptiveLIFDetector.run: preprocessing                                  *)
(***************************************************************************)
\* ecg_shifted = ecg_filtered - min; if max > 0: ecg_shifted /= (max + 1e-12)
Normalised(sig, n) ==
    LET mn == ArrMin(sig, n)
        sh == [k \in Idx(n) |-> sig[k] - mn]
        mx == ArrMax(sh, n)
    IN  IF mx > 0 THEN [k \in Idx(n) |-> (sh[k] * 1000) \div mx] ELSE sh

\* (x - med) / (mad + 1e-9), clipped to [-5, 10].  With mad = 0 the quotient by
\* 1e-9 is 0 for x = med and beyond the clip range for every other x.
Standardised(sig, n) ==
    LET sh  == Normalised(sig, n)
        med == Median(sh, n)
        mad == Median([k \in Idx(n) |-> Abs(sh[k] - med)], n)
    IN  [k \in Idx(n) |->
            LET d == sh[k] - med
            IN  IF mad = 0
                THEN (IF d = 0 THEN 0 ELSE IF d > 0 THEN StdHi ELSE StdLo)
                ELSE Clip((d * 1000) \div mad, StdLo, StdHi)]

\* I_t = gain * clip(ecg_std - dead_zone, 0, None)
DriveCurrent(sig, n) ==
    LET std == Standardised(sig, n)
    IN  [k \in Idx(n) |-> (gain * Max2(std[k] - dead_zone, 0)) \div 1000]

(***************************************************************************)
(* AdaptiveLIFDetector.run: one iteration of the sample loop               *)
(***************************************************************************)
\* v[t] + dt * (-(v[t] - v_rest) / tau_m + I_t[t])
VNext(tt) ==
    v[tt] + (dt * (-(v[tt] - v_rest))) \div tau_m + (dt * I_t[tt]) \div 1000

\* variant: refractory_ms divided by 1000 a second time
Refractory_ms_twice(tt, last) == (Time(tt) - last) < det_refractory_s \div 1000

\* refractory = ((t/fs) - last_spike_time) < refractory_s
Refractory(tt, last) == (Time(tt) - last) < det_refractory_s

\* not refractory and v[t+1] >= theta[t]
SpikeCond(tt, vnext) == ~Refractory(tt, last_spike_time) /\ vnext >= theta[tt]

\* theta[t] + dt * (-(theta[t] - theta_base) / tau_theta)
ThetaRelax(tt) == theta[tt] + (dt * (-(theta[tt] - theta_base))) \div tau_theta

HomeoWindowSamples == (homeo_window_s * fs) \div 1000      \* int(homeo_window_s * fs)
HomeoDue(tt) == tt % HomeoWindowSamples = 0 /\ tt > 0

\* variant: only the ceiling is applied
ClampThetaBase_ceiling_only(x) == Min2(x, ThetaBaseMax)

\* np.clip(theta_base + delta, 0.001, 1.0)
ClampThetaBase(x) == Clip(x, ThetaBaseMin, ThetaBaseMax)

\* rate = len(wins) / max(1e-9, homeo_window_s) over the trailing window ending at
\* now = (t+1)/fs, st the spike times recorded so far  (spikes/s, thousandths)
WindowRate(tt, st) ==
    LET now   == Time(tt + 1)
        wins  == {k \in 1 .. Len(st) : st[k] >= now - homeo_window_s}
    IN  (Cardinality(wins) * 1000000) \div homeo_window_s

\* the homeostatic update of theta_base, st the spike times recorded so far
HomeoThetaBase(tt, st) ==
    LET rate  == WindowRate(tt, st)
        delta == (homeo_rate * (target_spikes_per_sec - rate)) \div 1000
    IN  ClampThetaBase(theta_base + delta)

\* variant: theta is re-initialised from the constructor argument
ResetTheta_from_params(n) == [k \in Idx(n) |-> detector_params.theta_base]

\* reset: self.theta = np.ones(length) * self.theta_base
ResetTheta(n) == [k \in Idx(n) |-> theta_base]

\* detector.run(obs_ecg), lines 87-99: reset, preprocessing, loop initialisation.
\* np.min of an empty array raises ValueError.
DetectorRunBegin ==
    /\ pc = "run_begin"
    /\ v' = Zeros(N)
    /\ theta' = ResetTheta(N)
    /\ spike_times' = <<>>
    /\ IF N = 0
       THEN /\ pc' = "raised"
            /\ UNCHANGED <<I_t, run_spikes, last_spike_time, t>>
       ELSE /\ I_t' = DriveCurrent(obs_ecg, N)
            /\ run_spikes' = Zeros(N)
            /\ last_spike_time' = NegInf
            /\ t' = 0
            /\ pc' = "run_loop"
    /\ UNCHANGED <<theta_base, fs, N, detector_params, pm_params, ecg_filt, obs_ecg,
                   spikes, i, t_s, pace, captured, accepted, paced_times,
                   captured_times, sensed_times, caller, pmVars>>

\* one iteration of "for t in range(T-1)", lines 100-120
DetectorIter ==
    /\ pc = "run_loop"
    /\ t < N - 1
    /\ LET vnext == VNext(t)
           spike == SpikeCond(t, vnext)
           st    == IF spike THEN Append(spike_times, Time(t + 1)) ELSE spike_times
       IN  /\ v' = [v EXCEPT ![t + 1] = IF spike THEN v_reset ELSE vnext]
           /\ theta' = [theta EXCEPT ![t + 1] =
                            IF spike THEN theta[t] + theta_inc ELSE ThetaRelax(t)]
           /\ run_spikes' = [run_spikes EXCEPT ![t + 1] = IF spike THEN 1 ELSE @]
           /\ last_spike_time' = IF spike THEN Time(t) ELSE last_spike_time
           /\ spike_times' = st
           /\ theta_base' = IF HomeoDue(t) THEN HomeoThetaBase(t, st) ELSE theta_base
    /\ t' = t + 1
    /\ UNCHANGED <<I_t, simVars, pmVars>>

\* return I_t, v, theta, spikes (line 121) into the caller's locals (lines 178, 194)
DetectorReturn ==
    /\ pc = "run_loop"
    /\ t >= N - 1
    /\ spikes' = run_spikes
    /\ i' = IF caller = "rerun" THEN i + 1 ELSE i
    /\ pc' = "sim_loop"
    /\ UNCHANGED <<fs, N, detector_params, pm_params, ecg_filt, obs_ecg, t_s, pace,
                   captured, accepted, paced_times, captured_times, sensed_times,
                   caller, detVars, pmVars>>

(***************************************************************************)
(* PacemakerController.step                                                *)
(***************************************************************************)
\* variant: the blanking test is left out
SenseAccept_no_blanking(ts, detector_spike) == detector_spike /\ ts >= refract_until

\* detector_spike and t_s >= blank_until and t_s >= refract_until
SenseAccept(ts, detector_spike) ==
    detector_spike /\ ts >= blank_until /\ ts >= refract_until

\* variant: the refractory deadline is computed from the blanking period
RefractAfterSense_blanking(ts) == ts + blanking_s

\* refract_until = t_s + refractory_s
RefractAfterSense(ts) == ts + pm_refractory_s

\* variant: the interval is measured from the end of blanking
TimeSinceLast_from_blanking(ts, last) == ts - blank_until

\* time_since_last = t_s - last_event_time, last the value left by sense handling
TimeSinceLast(ts, last) == ts - last

\* variant: no pace while the controller is refractory
PaceDue_unless_refractory(ts, last) ==
    TimeSinceLast(ts, last) >= escape_interval_s /\ ts >= refract_until

\* time_since_last >= escape_interval_s
PaceDue(ts, last) == TimeSinceLast(ts, last) >= escape_interval_s

\* variant: sign slip in the blanking deadline
BlankAfterPace_sign(ts) == blanking_s - ts

\* blank_until = t_s + blanking_s
BlankAfterPace(ts) == ts + blanking_s

\* step(t_s, detector_spike); draw is the outcome of np.random.rand() < cap_prob
PacemakerStep(ts, detector_spike, draw) ==
    LET acc   == SenseAccept(ts, detector_spike)
        last1 == IF acc THEN ts ELSE last_event_time
        pc_   == PaceDue(ts, last1)
    IN  /\ accepted' = acc
        /\ pace' = pc_
        /\ captured' = (pc_ /\ draw)
        /\ sensed_history' = IF acc THEN Append(sensed_history, ts) ELSE sensed_history
        /\ refract_until' = IF acc THEN RefractAfterSense(ts) ELSE refract_until
        /\ last_event_time' = IF pc_ THEN ts ELSE last1
        /\ blank_until' = IF pc_ THEN BlankAfterPace(ts) ELSE blank_until
        /\ pacing_history' = IF pc_ THEN Append(pacing_history, <<ts, draw>>)
                             ELSE pacing_history

(***************************************************************************)
(* run_closed_loop                                                         *)
(***************************************************************************)
Width == Max2(1, (pulse_width_s * fs) \div 1000000)   \* max(1, int(pulse_width_s * fs))
Artifact(j) == (ArtifactAmp * (Width - j)) \div Width \* 0.9 * (1 - j/width)

\* variant: the artifact window starts one sample before the pace
Inject_from_previous(sig, idx) ==
    [k \in Idx(N) |-> IF idx - 1 <= k /\ k < idx - 1 + Width
                      THEN sig[k] + Artifact(k - (idx - 1))
                      ELSE sig[k]]

\* for j in range(width): if i + j < N: obs_ecg[i+j] += 0.9 * (1 - j/width)
Inject(sig, idx) ==
    [k \in Idx(N) |-> IF idx <= k /\ k < idx + Width THEN sig[k] + Artifact(k - idx)
                      ELSE sig[k]]

\* variant: every pace is treated as captured
PaceCaptured_any_pace(p, c) == p

\* if pace and captured
PaceCaptured(p, c) == p /\ c

\* one iteration of "for i in range(N)", lines 182-194 up to the call of detector.run
SimStep(draw) ==
    /\ pc = "sim_loop"
    /\ i < N
    /\ t_s' = Time(i)
    /\ PacemakerStep(Time(i), spikes[i] = 1, draw)
    /\ sensed_times' = IF accepted' THEN Append(sensed_times, Time(i)) ELSE sensed_times
    /\ IF PaceCaptured(pace', captured')
       THEN /\ paced_times' = Append(paced_times, Time(i))
            /\ captured_times' = Append(captured_times, Time(i))
            /\ obs_ecg' = Inject(obs_ecg, i)
            /\ caller' = "rerun"
            /\ pc' = "run_begin"
            /\ i' = i
       ELSE /\ i' = i + 1
            /\ UNCHANGED <<paced_times, captured_times, obs_ecg, caller, pc>>
    /\ UNCHANGED <<fs, N, detector_params, pm_params, ecg_filt, spikes, detVars>>

\* the loop is exhausted: return dict(...), line 195
SimReturn ==
    /\ pc = "sim_loop"
    /\ i >= N
    /\ pc' = "done"
    /\ UNCHANGED <<fs, N, detector_params, pm_params, ecg_filt, obs_ecg, spikes, i, t_s,
                   pace, captured, accepted, paced_times, captured_times, sensed_times,
                   caller, detVars, pmVars>>

\* run_closed_loop up to the first detector.run: lines 169-177 and 179, with the
\* constructors of the detector (lines 65-79) and the controller (lines 131-145).
\* Configs is the set of <<detector_params, pm_params>> the run may be given.
\* 60.0 / lower_rate_bpm (line 133) raises ZeroDivisionError for a rate of 0.
InitWith(Configs) ==
    /\ fs \in FsChoices
    /\ N \in 0 .. MaxN
    /\ \E c \in Configs : detector_params = c[1] /\ pm_params = c[2]
    /\ ecg_filt \in [Idx(N) -> Levels]
    /\ obs_ecg = ecg_filt
    /\ spikes = Zeros(N)
    /\ i = 0
    /\ t_s = 0
    /\ pace = FALSE /\ captured = FALSE /\ accepted = FALSE
    /\ paced_times = <<>> /\ captured_times = <<>> /\ sensed_times = <<>>
    /\ pc = IF pm_params.lower_rate_bpm = 0 THEN "raised" ELSE "run_begin"
    /\ caller = "initial"
    /\ v = Zeros(N)
    /\ theta = Zeros(N)
    /\ theta_base = detector_params.theta_base
    /\ spike_times = <<>>
    /\ I_t = Zeros(N)
    /\ run_spikes = Zeros(N)
    /\ last_spike_time = NegInf
    /\ t = 0
    /\ last_event_time = NegInf
    /\ blank_until = NegInf
    /\ refract_until = NegInf
    /\ pacing_history = <<>>
    /\ sensed_history = <<>>

\* runs with positive rates, time constants and sample rate
Init == InitWith(DetectorConfigs \X ControllerConfigs)

\* runs given a non-positive lower-rate limit or target spike rate
InitNonPositiveRate ==
    InitWith((DetectorConfigs \X NonPositiveRateControllerConfigs)
                 \cup (NonPositiveRateDetectorConfigs \X ControllerConfigs))

Next ==
    \/ DetectorRunBegin
    \/ DetectorIter
    \/ DetectorReturn
    \/ \E draw \in BOOLEAN : SimStep(draw)
    \/ SimReturn

Spec == Init /\ [][Next]_vars
SpecNonPositiveRate == InitNonPositiveRate /\ [][Next]_vars

(***************************************************************************)
(* Properties                                                              *)
(***************************************************************************)
PaceTimes  == {pacing_history[k][1] : k \in 1 .. Len(pacing_history)}
SenseTimes == {sensed_history[k] : k \in 1 .. Len(sensed_history)}
Events     == PaceTimes \cup SenseTimes
Consecutive(S, e1, e2) == e1 \in S /\ e2 \in S /\ e1 < e2 /\ ~ \E e \in S : e1 < e /\ e < e2
\* the escape interval rounded up to the sample grid
EscapeOnGrid == ((escape_interval_s + dt - 1) \div dt) * dt
\* a controller step is about to be executed
StepEnabled == pc = "sim_loop" /\ i < N
\* an iteration of the detector's sample loop is about to be executed
IterEnabled == pc = "run_loop" /\ t < N - 1

\* C1: two consecutive controller events (accepted sense or pace) are at most
\* escape_interval + one sample period apart, and once a step has been executed
\* the time of the last step is less than one escape interval after the last event.
C1_EscapeIntervalGuarantee ==
    /\ \A e1 \in Events, e2 \in Events :
           Consecutive(Events, e1, e2) => e2 - e1 <= escape_interval_s + dt
    /\ Events # {} => t_s - last_event_time < escape_interval_s
\* a sense followed, a full escape interval later, by the next event, a pace
C1_Witness ==
    /\ pc = "done"
    /\ \E e1 \in SenseTimes, e2 \in PaceTimes :
           Consecutive(Events, e1, e2) /\ e2 - e1 >= escape_interval_s

\* C2: a step paces iff, after its sense handling, t_s - last_event_time >=
\* escape_interval_s; blank_until and refract_until play no part.
C2_PaceIffEscapeElapsed ==
    [][StepEnabled =>
          (pace' <=> (Time(i) - (IF accepted' THEN Time(i) ELSE last_event_time)
                          >= escape_interval_s))]_vars
\* a pace issued while the controller is still refractory from a sense
C2_Witness == pace /\ sensed_history # <<>> /\ t_s < refract_until

\* every detector spike of the run was accepted and the accepted senses cover the
\* run at intervals shorter than the escape interval
FastRhythm ==
    /\ SenseTimes # {}
    /\ \A s \in SenseTimes : (\A s0 \in SenseTimes : s <= s0) => s < escape_interval_s
    /\ \A s1 \in SenseTimes, s2 \in SenseTimes :
           Consecutive(SenseTimes, s1, s2) => s2 - s1 < escape_interval_s
    /\ \A s \in SenseTimes :
           (\A s0 \in SenseTimes : s >= s0) => Time(N - 1) - s < escape_interval_s
    /\ \A k \in Idx(N) : spikes[k] = 1 => Time(k) \in SenseTimes
\* C3: with a fast intrinsic rhythm sensed throughout, the finished run has
\* delivered no pace at all.
C3_FastRhythmZeroPaces == (pc = "done" /\ FastRhythm) => pacing_history = <<>>

\* C4: when no sense is ever accepted, the finished run has paced
\* floor(duration / escape_interval) times, consecutive paces one escape interval
\* (on the sample grid) apart.
C4_NoRhythmPaceCount ==
    (pc = "done" /\ sensed_history = <<>>) =>
        /\ Len(pacing_history) = duration_s \div escape_interval_s
        /\ \A k \in 1 .. Len(pacing_history) - 1 :
               pacing_history[k + 1][1] - pacing_history[k][1] = EscapeOnGrid

\* C5: no sense is accepted at s with p <= s < p + blanking after a pace at p,
\* nor at s2 with s1 < s2 < s1 + refractory after an accepted sense at s1.
C5_NoDoubleCounting ==
    /\ \A p \in PaceTimes, s \in SenseTimes : ~ (p <= s /\ s < p + blanking_s)
    /\ \A s1 \in SenseTimes, s2 \in SenseTimes : ~ (s1 < s2 /\ s2 < s1 + pm_refractory_s)
\* after a captured pace and the detector re-run, a detector spike inside the
\* blanking window (and outside the refractory window) was not accepted
C5_Witness ==
    /\ pc = "sim_loop" /\ i >= 1 /\ t_s = Time(i - 1)
    /\ captured_times # <<>>
    /\ spikes[i - 1] = 1 /\ ~accepted /\ ~pace
    /\ t_s < blank_until /\ t_s >= refract_until

\* C6: after any event (accepted sense or pace) at e no sense is accepted at s
\* with e < s < e + refractory_period.
C6_RefractoryAfterEvent ==
    \A e \in Events, s \in SenseTimes : ~ (e < s /\ s < e + pm_refractory_s)

\* C7: a detector spike at sample t+1 has pre-reset v[t+1] >= theta[t], and
\* consecutive recorded spike times are at least the detector's refractory
\* period apart.
C7_DetectorRefractoryExclusion ==
    [][(IterEnabled /\ run_spikes'[t + 1] = 1) =>
          /\ VNext(t) >= theta[t]
          /\ \A k \in 1 .. Len(spike_times') - 1 :
                 spike_times'[k + 1] - spike_times'[k] >= det_refractory_s]_vars
\* two spikes of one run exactly one refractory period (two samples) apart
C7_Witness ==
    /\ pc = "run_loop"
    /\ det_refractory_s > dt
    /\ \E k \in 1 .. Len(spike_times) - 1 :
           spike_times[k + 1] - spike_times[k] = det_refractory_s

\* C8: in the trace a detector run returns, theta[k] >= 0.001 at every index.
C8_ThetaFloor ==
    (pc = "run_loop" /\ t >= N - 1) => \A k \in Idx(N) : theta[k] >= ThetaBaseMin

\* C9: right after a homeostatic update theta_base is within [0.001, 1.0].
C9_ThetaBaseClamped ==
    [][(IterEnabled /\ HomeoDue(t)) =>
          (ThetaBaseMin <= theta_base' /\ theta_base' <= ThetaBaseMax)]_vars
\* an update that pulled theta_base down to the floor after windowed spikes
C9_Witness ==
    /\ pc = "run_loop" /\ t >= 1 /\ HomeoDue(t - 1)
    /\ spike_times # <<>>
    /\ detector_params.theta_base > ThetaBaseMin
    /\ theta_base = ThetaBaseMin

\* C10: blank_until and refract_until never decrease.
C10_TimersMonotone ==
    [][blank_until' >= blank_until /\ refract_until' >= refract_until]_vars
\* both timers have been advanced more than once
C10_Witness ==
    /\ Len(pacing_history) >= 2 /\ Len(sensed_history) >= 2
    /\ blank_until > pacing_history[1][1] + blanking_s
    /\ refract_until > sensed_history[1] + pm_refractory_s

\* C11: when run_closed_loop returns, paced_times holds the time of every pace
\* of pacing_history (captured or not), captured_times the times of the
\* captured ones, and sensed_times equals sensed_history.
C11_ResultListsMatchHistory ==
    pc = "done" =>
        /\ paced_times = [k \in 1 .. Len(pacing_history) |-> pacing_history[k][1]]
        /\ \A x \in PaceTimes :
               (\E k \in 1 .. Len(captured_times) : captured_times[k] = x)
                   <=> (\E k \in 1 .. Len(pacing_history) : pacing_history[k] = <<x, TRUE>>)
        /\ sensed_times = sensed_history

\* C13: AdaptiveLIFDetector.run never raises, whatever the length N >= 0 of the
\* signal (flat and zero-length signals included), and what it returns are four
\* sequences over the indices 0 .. N-1.
C13_RunNeverRaises ==
    /\ pc # "raised"
    /\ (pc = "run_loop" /\ t >= N - 1) =>
           /\ DOMAIN I_t = Idx(N) /\ DOMAIN v = Idx(N)
           /\ DOMAIN theta = Idx(N) /\ DOMAIN run_spikes = Idx(N)

\* the run was given a non-positive lower-rate limit or target spike rate
NonPositiveRate ==
    pm_params.lower_rate_bpm <= 0 \/ detector_params.target_spikes_per_sec <= 0
\* C12: with a non-positive rate in the configuration the run is rejected before
\* the simulation starts: no detector sample update and no controller step is
\* ever executed.
C12_NonPositiveRateRejected ==
    NonPositiveRate =>
        /\ t = 0 /\ i = 0
        /\ pacing_history = <<>> /\ sensed_history = <<>>
        /\ pc # "done"

\* C15: a detector run starts with v zeroed, theta filled with the current
\* theta_base and spike_times cleared, and leaves theta_base as the previous run
\* left it; theta_base changes only in a homeostatic update; no step of a
\* detector run changes the controller state.
C15_DetectorLifecycle ==
    [][/\ pc = "run_begin" =>
              /\ v' = [k \in Idx(N) |-> 0]
              /\ theta' = [k \in Idx(N) |-> theta_base]
              /\ spike_times' = <<>>
              /\ theta_base' = theta_base
       /\ theta_base' # theta_base => (IterEnabled /\ HomeoDue(t))
       /\ pc \in {"run_begin", "run_loop"} =>
              /\ last_event_time' = last_event_time
              /\ blank_until' = blank_until
              /\ refract_until' = refract_until
              /\ pacing_history' = pacing_history
              /\ sensed_history' = sensed_history]_vars
\* a re-run that started from a theta_base the previous run had adjusted, with a
\* controller that has already sensed and paced
C15_Witness ==
    /\ pc = "run_loop" /\ caller = "rerun" /\ t = 0
    /\ theta_base # detector_params.theta_base
    /\ theta[0] = theta_base
    /\ sensed_history # <<>>

\* the artifacts of the first n captured paces at sample k
RECURSIVE ArtifactSum(_, _)
ArtifactSum(k, n) ==
    IF n = 0 THEN 0
    ELSE LET c == captured_times[n]
         IN  ArtifactSum(k, n - 1)
                 + (IF Time(k) >= c /\ Time(k) < c + Width * dt
                    THEN (ArtifactAmp * (Width - (Time(k) - c) \div dt)) \div Width
                    ELSE 0)
\* the intrinsic signal with the artifact of every captured pace so far
ObservedWithArtifacts ==
    [k \in Idx(N) |-> ecg_filt[k] + ArtifactSum(k, Len(captured_times))]

\* C16: the loop steps the controller once per index, in increasing order, up
\* to N-1; a detector run starts only at a captured pace (after the initial
\* one), every captured pace starts one, and the loop goes on to the next index
\* only when that run has returned; the spike flag fed at index i is that of the
\* last completed run, which ran over the observed signal holding the artifact
\* of every captured pace so far.
C16_LoopOrdering ==
    /\ [](StepEnabled =>
            /\ spikes = run_spikes
            /\ obs_ecg = ObservedWithArtifacts
            /\ I_t = DriveCurrent(obs_ecg, N)
            /\ \A k \in 1 .. Len(pacing_history) : pacing_history[k][1] < Time(i))
    /\ [](pc = "done" => i = N)
    /\ [](pc = "raised" => N = 0)
    /\ [][/\ StepEnabled =>
                /\ t_s' = Time(i)
                /\ IF pace' /\ captured'
                   THEN pc' = "run_begin" /\ i' = i
                   ELSE pc' = "sim_loop" /\ i' = i + 1
          /\ pc' = "run_begin" => (StepEnabled /\ pace' /\ captured')
          /\ (pc = "run_loop" /\ pc' = "sim_loop") =>
                i' = (IF caller = "rerun" THEN i + 1 ELSE 0)
          /\ i' # i => i' = i + 1]_vars
\* a finished run of at least four steps with two captured paces and a sense
C16_Witness ==
    /\ pc = "done" /\ N >= 4
    /\ Len(captured_times) >= 2
    /\ sensed_history # <<>>

\* C17: when a re-run returns at loop index i, its spike indicator equals that
\* of the previous run at every index before i.
C17_RerunPreservesHistory ==
    [][(pc = "run_loop" /\ pc' = "sim_loop" /\ caller = "rerun") =>
          \A k \in Idx(N) : k < i => run_spikes[k] = spikes[k]]_vars

\* C18: at a homeostatic update, a windowed spike rate above the target does not
\* lower theta_base and a rate below the target does not raise it.
C18_HomeostasisTowardTarget ==
    [][(IterEnabled /\ HomeoDue(t)) =>
          LET rate == WindowRate(t, spike_times')
          IN  /\ rate > target_spikes_per_sec => theta_base' >= theta_base
              /\ rate < target_spikes_per_sec => theta_base' <= theta_base]_vars

\* C19: step(t_s, detector_spike) accepts iff detector_spike and t_s >=
\* blank_until and t_s >= refract_until; exactly then t_s is appended to
\* sensed_history, last_event_time becomes t_s, refract_until becomes t_s +
\* refractory_period and the step does not pace; a step that neither accepts
\* nor paces changes no field of the controller.
C19_SenseAcceptanceRule ==
    [][StepEnabled =>
          LET ts == Time(i)
          IN  /\ accepted' <=> (spikes[i] = 1 /\ ts >= blank_until /\ ts >= refract_until)
              /\ accepted' =>
                     /\ sensed_history' = Append(sensed_history, ts)
                     /\ last_event_time' = ts
                     /\ refract_until' = ts + pm_refractory_s
                     /\ ~pace'
              /\ ~accepted' =>
                     /\ sensed_history' = sensed_history
                     /\ refract_until' = refract_until
              /\ (~accepted' /\ ~pace') =>
                     /\ last_event_time' = last_event_time
                     /\ blank_until' = blank_until
                     /\ pacing_history' = pacing_history]_vars
\* a sense accepted after an earlier pace and an earlier sense, once both the
\* blanking and the refractory window had passed
C19_Witness ==
    /\ accepted /\ ~pace
    /\ pacing_history # <<>> /\ Len(sensed_history) >= 2
    /\ last_event_time = t_s
    /\ refract_until = t_s + pm_refractory_s
    /\ blank_until > NegInf /\ blank_until <= t_s

\* C20: the observed signal changes only in a loop step whose pace was
\* captured; such a step at index i adds the artifact to the samples
\* i .. min(i + width, N) - 1 and leaves every other sample, in particular
\* every sample before i, as it was; a step without a captured pace (a
\* non-captured pace, an accepted sense, or neither) changes no sample and
\* starts no detector run; the intrinsic filtered signal never changes, neither
\* by an injection nor by a detector run.
C20_InjectionFrame ==
    [][/\ ecg_filt' = ecg_filt
       /\ obs_ecg' # obs_ecg => (StepEnabled /\ pace' /\ captured')
       /\ StepEnabled =>
            /\ (pace' /\ captured') =>
                   \A k \in Idx(N) :
                       obs_ecg'[k] = IF i <= k /\ k < Min2(i + Width, N)
                                     THEN obs_ecg[k] + Artifact(k - i)
                                     ELSE obs_ecg[k]
            /\ ~(pace' /\ captured') =>
                   /\ obs_ecg' = obs_ecg
                   /\ pc' # "run_begin"]_vars
\* a captured pace at the last index with a two-sample pulse, whose window is
\* cut at N, after an earlier captured pace at index 0
C20_Witness ==
    /\ pc = "run_begin" /\ caller = "rerun"
    /\ pace /\ captured
    /\ Width = 2 /\ N >= 3 /\ i = N - 1
    /\ Len(captured_times) >= 2 /\ captured_times[1] = 0
    /\ obs_ecg[0] = ecg_filt[0] + ArtifactAmp
    /\ obs_ecg[N - 1] = ecg_filt[N - 1] + ArtifactAmp

====
